---- MODULE Spec2Model ----
(***************************************************************************)
(* Patient Point Impact Engine (06_streamlit_app.py): the conversation     *)
(* kept in st.session_state.messages, the agent client query_agent, and    *)
(* the visualization selector needs_visualization / create_visualization.  *)
(*                                                                         *)
(* Python values are modelled as follows.  A str is a TLA+ string; a list  *)
(* is a sequence; a dict is a record (a function on its keys) except a     *)
(* data row, which is the sequence of its [k, v] items in key order; None  *)
(* where a figure is expected is the record None.  A JSON scalar is        *)
(* [int |-> n], [float |-> n], [str |-> s] or [null |-> TRUE].             *)
(***************************************************************************)
EXTENDS Integers, Sequences, FiniteSets, TLC

VARIABLES messages, sessionCache, pc, appended, last, fin, fout

appVars == <<messages, sessionCache, pc, appended, last>>
fnVars == <<fin, fout>>
vars == <<messages, sessionCache, pc, appended, last, fin, fout>>

(***************************************************************************)
(* str methods used by the code.                                           *)
(***************************************************************************)
UpperChars == "ABCDEFGHIJKLMNOPQRSTUVWXYZ"
LowerChars == "abcdefghijklmnopqrstuvwxyz"

UpperSet == {SubSeq(UpperChars, i, i) : i \in 1..Len(UpperChars)}
LowerSet == {SubSeq(LowerChars, i, i) : i \in 1..Len(LowerChars)}

ToLower ==
    [c \in UpperSet |->
        LET i == CHOOSE j \in 1..Len(UpperChars) : SubSeq(UpperChars, j, j) = c
        IN SubSeq(LowerChars, i, i)]

ToUpper ==
    [c \in LowerSet |->
        LET i == CHOOSE j \in 1..Len(LowerChars) : SubSeq(LowerChars, j, j) = c
        IN SubSeq(UpperChars, i, i)]

IsUpperChar(c) == c \in UpperSet
IsLowerChar(c) == c \in LowerSet

LowerChar(c) == IF c \in UpperSet THEN ToLower[c] ELSE c
UpperChar(c) == IF c \in LowerSet THEN ToUpper[c] ELSE c

\* s.lower()
RECURSIVE Lower(_)
Lower(s) ==
    IF s = "" THEN ""
    ELSE LowerChar(SubSeq(s, 1, 1)) \o Lower(SubSeq(s, 2, Len(s)))

\* k in s
Contains(s, k) ==
    \E i \in 1..(Len(s) - Len(k) + 1) : SubSeq(s, i, i + Len(k) - 1) = k

\* s.replace(old, new) for a one-character old
RECURSIVE Replace(_, _, _)
Replace(s, old, new) ==
    IF s = "" THEN ""
    ELSE (IF SubSeq(s, 1, 1) = old THEN new ELSE SubSeq(s, 1, 1))
         \o Replace(SubSeq(s, 2, Len(s)), old, new)

\* s.title(): the first letter of every run of letters in upper case, the rest lower
RECURSIVE TitleFrom(_, _)
TitleFrom(s, inWord) ==
    IF s = "" THEN ""
    ELSE LET c == SubSeq(s, 1, 1)
             letter == IsUpperChar(c) \/ IsLowerChar(c)
         IN (IF ~letter THEN c ELSE IF inWord THEN LowerChar(c) ELSE UpperChar(c))
            \o TitleFrom(SubSeq(s, 2, Len(s)), letter)

Title(s) == TitleFrom(s, FALSE)

\* col.replace('_', ' ').title()
Label(col) == Title(Replace(col, "_", " "))

\* any(term in name.lower() for term in terms)
AnyTermIn(name, terms) ==
    LET lowered == Lower(name)
    IN \E t \in terms : Contains(lowered, t)

(***************************************************************************)
(* Python None where a figure is expected, and dict.get.                   *)
(***************************************************************************)
None == [kind |-> "None"]

Get(d, key, default) == IF key \in DOMAIN d THEN d[key] ELSE default

(***************************************************************************)
(* pd.DataFrame(data) for a list of row dicts: the columns in order of     *)
(* first appearance, and the dtype pandas infers for each column.          *)
(***************************************************************************)
RowKeys(row) == [i \in 1..Len(row) |-> row[i].k]

RECURSIVE AppendNew(_, _)
AppendNew(cols, keys) ==
    IF keys = <<>> THEN cols
    ELSE AppendNew(IF \E i \in 1..Len(cols) : cols[i] = Head(keys)
                   THEN cols ELSE Append(cols, Head(keys)),
                   Tail(keys))

RECURSIVE Columns(_)
Columns(data) ==
    IF data = <<>> THEN <<>>
    ELSE LET rest == Columns(SubSeq(data, 1, Len(data) - 1))
         IN AppendNew(rest, RowKeys(data[Len(data)]))

NaN == [nan |-> TRUE]

CellOf(row, col) ==
    IF \E i \in 1..Len(row) : row[i].k = col
    THEN row[CHOOSE i \in 1..Len(row) : row[i].k = col].v
    ELSE NaN

ColumnValues(data, col) == [r \in 1..Len(data) |-> CellOf(data[r], col)]

IsStr(v) == "str" \in DOMAIN v
IsInt(v) == "int" \in DOMAIN v
IsNone(v) == "null" \in DOMAIN v

\* mutant: a column of only None counts as a float column
Dtype_nullnumeric(data, col) ==
    LET vals == ColumnValues(data, col)
        idx == 1..Len(vals)
    IN IF \E r \in idx : IsStr(vals[r]) THEN "object"
       ELSE IF vals /= <<>> /\ \A r \in idx : IsInt(vals[r]) THEN "int64"
       ELSE "float64"

\* object for a column holding a str or only None, int64 for ints only,
\* float64 for numbers with a float or a missing value among them
Dtype(data, col) ==
    LET vals == ColumnValues(data, col)
        idx == 1..Len(vals)
    IN IF \E r \in idx : IsStr(vals[r]) THEN "object"
       ELSE IF \A r \in idx : IsNone(vals[r]) THEN "object"
       ELSE IF \A r \in idx : IsInt(vals[r]) THEN "int64"
       ELSE "float64"

\* df.select_dtypes(include=dtypes).columns.tolist()
SelectDtypes(data, dtypes) ==
    SelectSeq(Columns(data), LAMBDA c : Dtype(data, c) \in dtypes)

NumericDtypes == {"int64", "float64"}

\* [col for col in df.columns if any(term in col.lower() for term in terms)]
ColumnsWith(data, terms) ==
    SelectSeq(Columns(data), LAMBDA c : AnyTermIn(c, terms))

(***************************************************************************)
(* needs_visualization(query, response)                                    *)
(***************************************************************************)
viz_keywords ==
    {"impact", "correlation", "trend", "compare", "comparison",
     "increase", "decrease", "lead to", "relationship",
     "show", "visualize", "plot", "chart"}

has_viz_keyword(query) ==
    LET query_lower == Lower(query)
    IN \E keyword \in viz_keywords : Contains(query_lower, keyword)

\* response.get('data') is None, hence false, when the key is missing
has_data(response) ==
    /\ "data" \in DOMAIN response
    /\ response.data /= <<>>
    /\ Len(response.data) > 0
    /\ Len(response.data) > 1

\* mutant: one row is taken to be enough
needs_visualization_anyrow(query, response) ==
    /\ has_viz_keyword(query)
    /\ "data" \in DOMAIN response
    /\ Len(response.data) > 0

needs_visualization(query, response) ==
    has_viz_keyword(query) /\ has_data(response)

(***************************************************************************)
(* create_visualization(query, data): the figure as the arguments the code *)
(* passes to plotly, or None.                                                *)
(***************************************************************************)
scatter_keywords == {"correlation", "impact", "lead to", "relationship"}
engagement_terms == {"scroll", "click", "dwell", "engagement"}
outcome_terms == {"vaccine", "screening", "show_rate", "appointment"}
color_terms == {"specialty", "region", "level", "category"}
\* mutant: the word by only with a space on each side
bar_keywords_spaced == {"compare", "comparison", "across", " by "}
bar_keywords == {"compare", "comparison", "across", "by"}
bar_value_terms == {"vaccine", "screening", "total", "count"}
line_keywords == {"trend", "over time", "monthly", "quarterly"}
time_terms == {"month", "quarter", "year", "date", "time"}

AnyKeyword(query, keywords) ==
    LET query_lower == Lower(query)
    IN \E keyword \in keywords : Contains(query_lower, keyword)

\* the first element of cols, as a list of at most one element
FirstOf(cols) == IF cols = <<>> THEN <<>> ELSE <<Head(cols)>>

ScatterApplies(query, data) ==
    /\ AnyKeyword(query, scatter_keywords)
    /\ ColumnsWith(data, engagement_terms) /= <<>>
    /\ ColumnsWith(data, outcome_terms) /= <<>>

ScatterChart(data) ==
    LET x_col == ColumnsWith(data, engagement_terms)[1]
        y_col == ColumnsWith(data, outcome_terms)[1]
    IN [kind |-> "scatter",
        x |-> x_col,
        y |-> y_col,
        color |-> FirstOf(ColumnsWith(data, color_terms)),
        size |-> IF Dtype(data, y_col) \in NumericDtypes THEN <<y_col>> ELSE <<>>,
        title |-> "Impact of " \o x_col \o " on " \o y_col,
        trend |-> Dtype(data, x_col) \in NumericDtypes
                  /\ Dtype(data, y_col) \in NumericDtypes]

\* cat_cols and num_cols
HasCatAndNum(data) ==
    /\ SelectDtypes(data, {"object"}) /= <<>>
    /\ SelectDtypes(data, NumericDtypes) /= <<>>

BarApplies(query, data) ==
    AnyKeyword(query, bar_keywords) /\ HasCatAndNum(data)

\* the for loop over num_cols: the first column with a preferred term, else num_cols[0]
BarValueColumn(num_cols) ==
    IF \E i \in 1..Len(num_cols) : AnyTermIn(num_cols[i], bar_value_terms)
    THEN num_cols[CHOOSE i \in 1..Len(num_cols) :
                     /\ AnyTermIn(num_cols[i], bar_value_terms)
                     /\ \A j \in 1..(i - 1) : ~AnyTermIn(num_cols[j], bar_value_terms)]
    ELSE num_cols[1]

BarChart(data) ==
    LET x_col == SelectDtypes(data, {"object"})[1]
        y_col == BarValueColumn(SelectDtypes(data, NumericDtypes))
    IN [kind |-> "bar",
        x |-> x_col,
        y |-> y_col,
        color |-> <<x_col>>,
        title |-> Label(y_col) \o " by " \o Label(x_col),
        showlegend |-> FALSE]

LineApplies(query, data) ==
    AnyKeyword(query, line_keywords) /\ ColumnsWith(data, time_terms) /= <<>>

\* num_cols[:3]
FirstThree(cols) == SubSeq(cols, 1, IF Len(cols) < 3 THEN Len(cols) ELSE 3)

LineChart(data) ==
    [kind |-> "line",
     x |-> ColumnsWith(data, time_terms)[1],
     ys |-> FirstThree(SelectDtypes(data, NumericDtypes)),
     title |-> "Trends Over Time"]

DefaultChart(data) ==
    [kind |-> "bar",
     x |-> SelectDtypes(data, {"object"})[1],
     y |-> SelectDtypes(data, NumericDtypes)[1],
     color |-> <<>>,
     title |-> "Analysis Results",
     showlegend |-> TRUE]

\* mutant: the comparison rule is tried before the correlation rule
create_visualization_barfirst(query, data) ==
    IF BarApplies(query, data) THEN BarChart(data)
    ELSE IF ScatterApplies(query, data) THEN ScatterChart(data)
    ELSE IF LineApplies(query, data) THEN LineChart(data)
    ELSE IF HasCatAndNum(data) THEN DefaultChart(data)
    ELSE None

create_visualization(query, data) ==
    IF ScatterApplies(query, data) THEN ScatterChart(data)
    ELSE IF BarApplies(query, data) THEN BarChart(data)
    ELSE IF LineApplies(query, data) THEN LineChart(data)
    ELSE IF HasCatAndNum(data) THEN DefaultChart(data)
    ELSE None

(***************************************************************************)
(* query_agent: the statement handed to session.sql, and how the warehouse *)
(* reads the string constant in it.  The f-string's surrounding white      *)
(* space is left out.                                                      *)
(***************************************************************************)
SqlPrefix == "SELECT PATIENT_IMPACT_AGENT('"
SqlSuffix == "') AS response"

AgentSql(user_query) == SqlPrefix \o Replace(user_query, "'", "''") \o SqlSuffix

\* Scanning a single-quoted string constant from position i (just after the
\* opening quote): '' is a quote, a backslash escapes the character after it,
\* a lone quote ends the constant.  closed is FALSE when the text ends first.
RECURSIVE ScanLiteral(_, _, _)
ScanLiteral(text, i, value) ==
    IF i > Len(text) THEN [closed |-> FALSE, end |-> i, value |-> value]
    ELSE LET c == SubSeq(text, i, i)
         IN IF c = "\\"
            THEN IF i + 1 > Len(text)
                 THEN [closed |-> FALSE, end |-> i + 1, value |-> value]
                 ELSE ScanLiteral(text, i + 2, value \o SubSeq(text, i + 1, i + 1))
            ELSE IF c = "'"
            THEN IF i + 1 <= Len(text) /\ SubSeq(text, i + 1, i + 1) = "'"
                 THEN ScanLiteral(text, i + 2, value \o "'")
                 ELSE [closed |-> TRUE, end |-> i, value |-> value]
            ELSE ScanLiteral(text, i + 1, value \o c)

(***************************************************************************)
(* Inputs of the function-level specification SpecFn.                      *)
(***************************************************************************)
MaxRows == 2
MaxCols == 3
MaxLen == 4

\* a JSON number 2.5 is [float |-> 25]: only its being a float matters
ValuePool ==
    {[int |-> 3], [float |-> 25], [str |-> "12"], [str |-> "north"], [null |-> TRUE]}

ColPool ==
    {"scroll_depth", "Engagement_Level", "vaccines", "show_rate", "month"}

RECURSIVE SeqsUpTo(_, _)
SeqsUpTo(S, n) ==
    IF n = 0 THEN {<<>>}
    ELSE LET shorter == SeqsUpTo(S, n - 1)
         IN shorter \cup {Append(q, x) : q \in shorter, x \in S}

NoRepeat(q) == \A i, j \in 1..Len(q) : i /= j => q[i] /= q[j]

\* two rows over the columns cols, column i holding ints or strs by kinds[i]
TypedData(cols, kinds) ==
    [r \in 1..2 |->
        [i \in 1..Len(cols) |->
            [k |-> cols[i],
             v |-> IF kinds[i] = "num" THEN [int |-> r] ELSE [str |-> "north"]]]]

NameRichData ==
    {TypedData(cols, kinds) :
        cols \in {q \in SeqsUpTo(ColPool, MaxCols) : q /= <<>> /\ NoRepeat(q)},
        kinds \in [1..MaxCols -> {"num", "text"}]}

\* up to MaxRows rows over two fixed columns, the cells from ValuePool
ValueRichData ==
    UNION {[1..n -> {<<[k |-> "specialty", v |-> a], [k |-> "total", v |-> b]>> :
                        a \in ValuePool,
                        b \in {[int |-> 3], [str |-> "12"], [null |-> TRUE]}}] :
           n \in 0..MaxRows}

QuestionsCV ==
    {"Did an increase in scrolling lead to more vaccines administered?",
     "Show the Correlation by region",
     "Compare outcomes across specialties",
     "Show the trend for baby visits",
     "Show me monthly trends",
     "What content do we have about flu vaccines?"}

QuestionsValue == {"Compare totals", "chart it"}

QuestionsNV ==
    {"Impact of clicks", "Show the Correlation", "monthly trend", "Compare regions",
     "a comparison", "Did an increase occur", "any decrease",
     "did scrolling lead to vaccines", "the relationship", "show me",
     "Visualize it", "plot it", "CHART", "leadto nothing", "",
     "What content do we have about flu vaccines?"}

OneRow(r) == <<[k |-> "total", v |-> [int |-> r]]>>

ResponsesNV ==
    {[answer |-> "ok"]}
    \cup {[answer |-> "ok", sql |-> "SELECT 1", data |-> [r \in 1..n |-> OneRow(r)]] :
             n \in 0..(MaxRows + 1)}

RECURSIVE StringsUpTo(_, _)
StringsUpTo(chars, n) ==
    IF n = 0 THEN {""}
    ELSE LET shorter == StringsUpTo(chars, n - 1)
         IN shorter \cup {q \o c : q \in shorter, c \in chars}

QuestionsSql == StringsUpTo({"a", " ", "'", "\\"}, MaxLen)

FnInputs ==
    {[call |-> "needs_visualization", query |-> q, response |-> r] :
        q \in QuestionsNV, r \in ResponsesNV}
    \cup {[call |-> "create_visualization", query |-> q, data |-> d] :
             q \in QuestionsCV, d \in NameRichData}
    \cup {[call |-> "create_visualization", query |-> q, data |-> d] :
             q \in QuestionsValue, d \in ValueRichData}
    \cup {[call |-> "query_agent", query |-> q] : q \in QuestionsSql}

(***************************************************************************)
(* The application.  One script run is the sidebar (get_summary_metrics,   *)
(* which obtains the session first) followed by the chat input handling    *)
(* or the Clear Chat History button.  The session handle is kept by        *)
(* st.cache_resource, which is shared by the whole process.                *)
(***************************************************************************)
MaxTurns == 4

Questions ==
    {"Did an increase in scrolling lead to more vaccines administered?",
     "What content do we have about flu vaccines?",
     "CHART the totals"}

ScenarioAData ==
    <<  <<[k |-> "scroll_depth", v |-> [int |-> 10]], [k |-> "vaccines", v |-> [int |-> 2]]>>,
        <<[k |-> "scroll_depth", v |-> [int |-> 50]], [k |-> "vaccines", v |-> [int |-> 9]]>>,
        <<[k |-> "scroll_depth", v |-> [int |-> 80]], [k |-> "vaccines", v |-> [int |-> 14]]>> >>

TextOnlyData ==
    <<  <<[k |-> "topic", v |-> [str |-> "flu"]]>>,
        <<[k |-> "topic", v |-> [str |-> "diabetes"]]>> >>

\* what the agent's JSON decodes to: an object, or some other JSON value
Payloads ==
    {[isdict |-> TRUE,
      dict |-> [answer |-> "Scrolling and vaccines rise together.",
                sql |-> "SELECT 1", data |-> ScenarioAData]],
     [isdict |-> TRUE,
      dict |-> [answer |-> "One provider.", sql |-> "SELECT 2",
                data |-> SubSeq(ScenarioAData, 1, 1)]],
     [isdict |-> TRUE, dict |-> [answer |-> "Two topics.", data |-> TextOnlyData]],
     [isdict |-> TRUE, dict |-> [sql |-> "SELECT 3"]],
     [isdict |-> FALSE]}

\* what session.sql(...).collect() and the RESPONSE column can be
AgentOutcomes ==
    {[kind |-> "sql_raises", error |-> "SQL execution error"],
     [kind |-> "no_rows", error |-> "list index out of range"],
     [kind |-> "string", valid |-> FALSE, error |-> "Expecting value: line 1 column 1 (char 0)"]}
    \cup {[kind |-> "string", valid |-> TRUE, decoded |-> p] : p \in Payloads}
    \cup {[kind |-> "parsed", decoded |-> p] : p \in Payloads}

\* get_session(): the cached handle, or get_active_session(), which can raise
SessionOutcomes(cache) == IF cache THEN {"hit"} ELSE {"created", "raises"}

get_session(sess) ==
    [raised |-> sess = "raises", cached |-> sess \in {"hit", "created"}]

query_agent(user_query, sess, agent) ==
    IF get_session(sess).raised
    THEN [raised |-> TRUE]
    ELSE IF agent.kind \in {"sql_raises", "no_rows"}
    THEN [raised |-> FALSE, status |-> "error", error |-> agent.error]
    ELSE IF agent.kind = "string" /\ ~agent.valid
    THEN [raised |-> FALSE, status |-> "error", error |-> agent.error]
    ELSE [raised |-> FALSE, status |-> "success", response |-> agent.decoded]

\* mutant: any data is charted, whatever the question
ShouldChart_dataonly(user_query, response, data) == data /= <<>>

\* if needs_visualization(user_query, response) and data
ShouldChart(user_query, response, data) ==
    needs_visualization(user_query, response) /\ data /= <<>>

VizOutcomes == {"ok", "build_raises", "show_raises"}

\* st.plotly_chart(viz) inside the try block, for the figure viz
ShowChart(viz, vizEnv) ==
    IF viz = None
    THEN [viz |-> None, vizEnv |-> "ok", shownChart |-> FALSE, warned |-> FALSE]
    ELSE IF vizEnv = "show_raises"
    THEN [viz |-> viz, vizEnv |-> "show_raises", shownChart |-> FALSE, warned |-> TRUE]
    ELSE [viz |-> viz, vizEnv |-> "ok", shownChart |-> TRUE, warned |-> FALSE]

\* mutant: a failure to build the chart is swallowed without a warning
VizStep_silent(user_query, data, vizEnv) ==
    IF vizEnv = "build_raises"
    THEN [viz |-> None, vizEnv |-> "build_raises", shownChart |-> FALSE, warned |-> FALSE]
    ELSE ShowChart(create_visualization(user_query, data), vizEnv)

\* the try block around create_visualization and st.plotly_chart: vizEnv says
\* which of the two calls raises; nothing escapes the block
VizStep(user_query, data, vizEnv) ==
    IF vizEnv = "build_raises"
    THEN [viz |-> None, vizEnv |-> "build_raises", shownChart |-> FALSE, warned |-> TRUE]
    ELSE ShowChart(create_visualization(user_query, data), vizEnv)

NoVizStep == [viz |-> None, vizEnv |-> "ok", shownChart |-> FALSE, warned |-> FALSE]

\* mutant: the new turn is put first
SessionAppend_front(msgs, turn) == <<turn>> \o msgs

SessionAppend(msgs, turn) == Append(msgs, turn)
SessionCleared == <<>>

NoRun == [outcome |-> "none"]

UserTurn(user_query) == [role |-> "user", content |-> user_query]

\* the chart step of the success branch
ChartStep(user_query, response, data, vizEnv) ==
    IF ShouldChart(user_query, response, data)
    THEN VizStep(user_query, data, vizEnv) @@ [chartTried |-> TRUE]
    ELSE NoVizStep @@ [chartTried |-> FALSE]

\* the success branch for a response that is a dict: the assistant turn it
\* appends and what it showed
Answer(user_query, response, step) ==
    [reply |-> <<[role |-> "assistant",
                  content |-> Get(response, "answer", "Analysis completed."),
                  sql |-> Get(response, "sql", ""),
                  data |-> Get(response, "data", <<>>),
                  visualization |-> step.viz]>>,
     last |-> step @@ [outcome |-> "answered", status |-> "success",
                       query |-> user_query, response |-> response,
                       shownSql |-> (Get(response, "sql", "") /= ""),
                       shownData |-> (Get(response, "data", <<>>) /= <<>>
                                      /\ Len(Get(response, "data", <<>>)) > 0)]]

\* "Process user input" after the user turn was appended: the assistant turn
\* it appends (reply, none when the run ends with an exception) and what it
\* showed.  An exception that leaves query_agent, or response.get on a
\* response that is no dict, ends the script run.
Handle(user_query, sess, agent, vizEnv) ==
    LET result == query_agent(user_query, sess, agent)
    IN IF result.raised
       THEN [reply |-> <<>>,
             last |-> [outcome |-> "raised", status |-> "raised", query |-> user_query]]
       ELSE IF result.status = "success"
       THEN IF ~result.response.isdict
            THEN [reply |-> <<>>,
                  last |-> [outcome |-> "raised", status |-> "success",
                            query |-> user_query]]
            ELSE Answer(user_query, result.response.dict,
                        ChartStep(user_query, result.response.dict,
                                  Get(result.response.dict, "data", <<>>), vizEnv))
       ELSE [reply |-> <<[role |-> "assistant",
                          content |-> "Error: " \o Get(result, "error",
                                                       "Unknown error occurred")]>>,
             last |-> [outcome |-> "error", status |-> "error", query |-> user_query]]

\* Handle for every question and every outcome of the environment
Handled ==
    [user_query \in Questions, sess \in {"hit", "created", "raises"},
     agent \in AgentOutcomes, vizEnv \in VizOutcomes |->
        Handle(user_query, sess, agent, vizEnv)]

(***************************************************************************)
(* Actions of the application.                                             *)
(***************************************************************************)
FnIdle == [call |-> "none"]
NotDone == [done |-> FALSE]

AppInit ==
    /\ messages = <<>>
    /\ sessionCache = FALSE
    /\ pc = "idle"
    /\ appended = <<>>
    /\ last = NoRun

Init ==
    /\ AppInit
    /\ fin = FnIdle
    /\ fout = NotDone

\* a script run up to the chat input: get_summary_metrics() calls
\* get_session() outside its try, so a failure there ends the run
RunSidebar ==
    /\ pc = "idle"
    /\ \E sess \in SessionOutcomes(sessionCache) :
          /\ sessionCache' = get_session(sess).cached
          /\ pc' = IF get_session(sess).raised THEN "idle" ELSE "input"
    /\ UNCHANGED <<messages, appended, last, fnVars>>

\* the runtime drops the cached resource (Clear cache, from any session)
CacheCleared ==
    /\ sessionCache
    /\ sessionCache' = FALSE
    /\ UNCHANGED <<messages, pc, appended, last, fnVars>>

ProcessUserInput ==
    /\ pc = "input"
    /\ Len(messages) + 2 <= MaxTurns
    /\ \E user_query \in Questions, sess \in SessionOutcomes(sessionCache),
          agent \in AgentOutcomes, vizEnv \in VizOutcomes :
          \E h \in {Handled[user_query, sess, agent, vizEnv]} :
             /\ messages' = IF h.reply = <<>>
                            THEN SessionAppend(messages, UserTurn(user_query))
                            ELSE SessionAppend(SessionAppend(messages, UserTurn(user_query)),
                                               h.reply[1])
             /\ appended' = appended \o <<UserTurn(user_query)>> \o h.reply
             /\ last' = h.last @@ [before |-> messages]
             /\ sessionCache' = get_session(sess).cached
    /\ pc' = "idle"
    /\ UNCHANGED fnVars

\* a run with no question and no click ends after the footer
RunWithoutInput ==
    /\ pc = "input"
    /\ pc' = "idle"
    /\ UNCHANGED <<messages, sessionCache, appended, last, fnVars>>

\* the Clear Chat History button, then st.rerun()
ClearChatHistory ==
    /\ pc = "input"
    /\ messages' = SessionCleared
    /\ appended' = <<>>
    /\ last' = [outcome |-> "cleared"]
    /\ pc' = "idle"
    /\ UNCHANGED <<sessionCache, fnVars>>

Next ==
    \/ RunSidebar
    \/ CacheCleared
    \/ ProcessUserInput
    \/ RunWithoutInput
    \/ ClearChatHistory

Spec == Init /\ [][Next]_vars

(***************************************************************************)
(* SpecFn: each function applied once to an input drawn from FnInputs.     *)
(***************************************************************************)
FnInit ==
    /\ AppInit
    /\ fin \in FnInputs
    /\ fout = NotDone

CallNeedsVisualization ==
    /\ fin.call = "needs_visualization"
    /\ ~fout.done
    /\ fout' = [done |-> TRUE, value |-> needs_visualization(fin.query, fin.response)]
    /\ UNCHANGED <<appVars, fin>>

CallCreateVisualization ==
    /\ fin.call = "create_visualization"
    /\ ~fout.done
    /\ fout' = [done |-> TRUE, value |-> create_visualization(fin.query, fin.data)]
    /\ UNCHANGED <<appVars, fin>>

CallAgentSql ==
    /\ fin.call = "query_agent"
    /\ ~fout.done
    /\ fout' = [done |-> TRUE, value |-> AgentSql(fin.query)]
    /\ UNCHANGED <<appVars, fin>>

NextFn ==
    \/ CallNeedsVisualization
    \/ CallCreateVisualization
    \/ CallAgentSql

SpecFn == FnInit /\ [][NextFn]_vars

Returned(call) == fin.call = call /\ fout.done

(***************************************************************************)
(* Properties of the visualization selector and of the agent query text,   *)
(* checked under SpecFn.                                                   *)
(***************************************************************************)
HasAny(query, words) == \E w \in words : Contains(Lower(query), w)

\* the columns of data, in column order, that satisfy Test
ColumnsWhere(data, Test(_)) == SelectSeq(Columns(data), Test)

C6_Triggers ==
    {"impact", "correlation", "trend", "compare", "comparison", "increase",
     "decrease", "lead to", "relationship", "show", "visualize", "plot", "chart"}

C6_RowCount(response) == IF "data" \in DOMAIN response THEN Len(response.data) ELSE 0

\* C6: needs_visualization is true exactly when the lower-cased question
\* contains one of the thirteen trigger strings and the result has more than
\* one data row; so it is false for no data, zero rows and one row.
C6_NeedsVisualizationIff ==
    Returned("needs_visualization") =>
        (fout.value <=> (HasAny(fin.query, C6_Triggers) /\ C6_RowCount(fin.response) > 1))

C6_Witness ==
    /\ Returned("needs_visualization")
    /\ fin.query = "CHART"
    /\ C6_RowCount(fin.response) = 1
    /\ fout.value = FALSE

C7_Engagement(c) == AnyTermIn(c, {"scroll", "click", "dwell", "engagement"})
C7_Outcome(c) == AnyTermIn(c, {"vaccine", "screening", "show_rate", "appointment"})

C7_ScatterFires(query, data) ==
    /\ HasAny(query, {"correlation", "impact", "lead to", "relationship"})
    /\ ColumnsWhere(data, C7_Engagement) /= <<>>
    /\ ColumnsWhere(data, C7_Outcome) /= <<>>

C7_LaterRules(query, data) ==
    IF BarApplies(query, data) THEN BarChart(data)
    ELSE IF LineApplies(query, data) THEN LineChart(data)
    ELSE IF HasCatAndNum(data) THEN DefaultChart(data)
    ELSE None

C8_IsComparisonChart(chart) == chart.kind = "bar" /\ ~chart.showlegend

C8_HasTimeColumn(data) ==
    ColumnsWhere(data, LAMBDA c : AnyTermIn(c, {"month", "quarter", "year", "date", "time"}))
        /= <<>>

\* C8 as stated: a question with none of compare, comparison, across and
\* " by " is never charted by the comparison rule.
C8_Original ==
    (Returned("create_visualization")
     /\ ~HasAny(fin.query, {"compare", "comparison", "across", " by "})) =>
        ~C8_IsComparisonChart(fout.value)

\* C8 amended: the comparison rule charts only questions containing compare,
\* comparison, across or the letters by anywhere; it charts every such
\* question the correlation rule leaves, over rows with a text and a numeric
\* column; and a trend question with none of the four, left by the
\* correlation rule, over rows with a time-like column gives the line chart.
C8_ComparisonTrigger ==
    Returned("create_visualization") =>
        /\ C8_IsComparisonChart(fout.value) =>
              HasAny(fin.query, {"compare", "comparison", "across", "by"})
        /\ (/\ HasAny(fin.query, {"compare", "comparison", "across", "by"})
            /\ ~C7_ScatterFires(fin.query, fin.data)
            /\ HasCatAndNum(fin.data)) => C8_IsComparisonChart(fout.value)
        /\ (/\ ~HasAny(fin.query, {"compare", "comparison", "across", "by"})
            /\ HasAny(fin.query, {"trend", "over time", "monthly", "quarterly"})
            /\ ~C7_ScatterFires(fin.query, fin.data)
            /\ C8_HasTimeColumn(fin.data)) => fout.value.kind = "line"

C8_Witness ==
    /\ Returned("create_visualization")
    /\ fin.query = "Show the trend for baby visits"
    /\ C8_HasTimeColumn(fin.data)
    /\ C8_IsComparisonChart(fout.value)

\* C9 as stated: the string constant the warehouse reads after the opening
\* quote ends at the closing quote the code wrote, its value is the question,
\* and what follows it is the fixed end of the statement.
C9_LiteralHoldsQuestion ==
    Returned("query_agent") =>
        \E lit \in {ScanLiteral(fout.value, Len(SqlPrefix) + 1, "")} :
            /\ lit.closed
            /\ lit.value = fin.query
            /\ SubSeq(fout.value, lit.end, Len(fout.value)) = SqlSuffix

C10_Digits == {"0", "1", "2", "3", "4", "5", "6", "7", "8", "9"}

\* int(s) or float(s) succeeds: digits with at most one decimal point
C10_ParsesAsNumber(v) ==
    \/ "int" \in DOMAIN v
    \/ "float" \in DOMAIN v
    \/ /\ "str" \in DOMAIN v
       /\ \E i \in 1..Len(v.str) : SubSeq(v.str, i, i) \in C10_Digits
       /\ \A i \in 1..Len(v.str) : SubSeq(v.str, i, i) \in C10_Digits \cup {"."}
       /\ Cardinality({i \in 1..Len(v.str) : SubSeq(v.str, i, i) = "."}) <= 1

C10_IsNull(v) == "null" \in DOMAIN v \/ "nan" \in DOMAIN v

C10_ParsedNumeric(data, col) ==
    \A r \in 1..Len(data) :
        C10_IsNull(CellOf(data[r], col)) \/ C10_ParsesAsNumber(CellOf(data[r], col))

\* C10 as stated: the category column of a bar chart is text and its value
\* column numeric, a column being numeric when all its non-null values parse
\* as numbers.
C10_Original ==
    (Returned("create_visualization") /\ fout.value.kind = "bar") =>
        /\ C10_ParsedNumeric(fin.data, fout.value.y)
        /\ ~C10_ParsedNumeric(fin.data, fout.value.x)

\* numeric by the type of the values: no string among them, and not all null
C10_TypedNumeric(data, col) ==
    /\ \A r \in 1..Len(data) : "str" \notin DOMAIN CellOf(data[r], col)
    /\ \E r \in 1..Len(data) : ~C10_IsNull(CellOf(data[r], col))

C10_NumericCols(data) == ColumnsWhere(data, LAMBDA c : C10_TypedNumeric(data, c))
C10_TextCols(data) == ColumnsWhere(data, LAMBDA c : ~C10_TypedNumeric(data, c))

C10_Preferred(data) ==
    SelectSeq(C10_NumericCols(data),
              LAMBDA c : AnyTermIn(c, {"vaccine", "screening", "total", "count"}))

\* C10 amended: a column is numeric when it holds a number and no string
\* (a numeric string is a string), and text when it holds a string or only
\* nulls; the bar charts take the first text column and a numeric column
\* (the first preferred one or the first; the first for the default rule),
\* the line chart the first three numeric columns, and no chart is built
\* only when a text or a numeric column is missing.
C10_DtypeClassification ==
    Returned("create_visualization") =>
        /\ fout.value.kind = "bar" =>
              /\ C10_TextCols(fin.data) /= <<>> /\ C10_NumericCols(fin.data) /= <<>>
              /\ fout.value.x = Head(C10_TextCols(fin.data))
              /\ fout.value.y =
                    IF fout.value.showlegend \/ C10_Preferred(fin.data) = <<>>
                    THEN Head(C10_NumericCols(fin.data))
                    ELSE Head(C10_Preferred(fin.data))
        /\ fout.value.kind = "line" =>
              fout.value.ys = FirstThree(C10_NumericCols(fin.data))
        /\ fout.value = None =>
              (C10_TextCols(fin.data) = <<>> \/ C10_NumericCols(fin.data) = <<>>)

C10_Witness ==
    /\ Returned("create_visualization")
    /\ Len(fin.data) = 2
    /\ fout.value.kind = "bar"
    /\ fout.value.x = "specialty"
    /\ \A r \in 1..2 : CellOf(fin.data[r], "specialty") = [str |-> "12"]
    /\ \A r \in 1..2 : CellOf(fin.data[r], "total") \in {[int |-> 3], [null |-> TRUE]}
    /\ \E r \in 1..2 : CellOf(fin.data[r], "total") = [null |-> TRUE]

(***************************************************************************)
(* Properties of the conversation, checked under Spec.                     *)
(***************************************************************************)
HasChart(turn) == "visualization" \in DOMAIN turn /\ turn.visualization /= None

\* C1: a turn holds a chart only if it is an assistant turn with at least two
\* data rows that answers a question containing a visualization trigger; user
\* turns, error turns and turns with fewer than two rows hold none.
C1_ChartOnlyWhenWarranted ==
    \A i \in 1..Len(messages) :
        /\ messages[i].role = "user" => ~HasChart(messages[i])
        /\ DOMAIN messages[i] = {"role", "content"} => ~HasChart(messages[i])
        /\ ("data" \in DOMAIN messages[i] /\ Len(messages[i].data) < 2) =>
              ~HasChart(messages[i])
        /\ HasChart(messages[i]) =>
              /\ messages[i].role = "assistant"
              /\ Len(messages[i].data) >= 2
              /\ i > 1
              /\ messages[i - 1].role = "user"
              /\ HasAny(messages[i - 1].content, C6_Triggers)

C1_Witness ==
    /\ Len(messages) >= 2
    /\ HasChart(messages[Len(messages)])
    /\ messages[Len(messages)].visualization.kind = "scatter"
    /\ last.outcome = "answered"

\* C2: the conversation is the turns appended since the last clear (or the
\* start), in append order and unchanged, and it is empty after a clear.
C2_ConversationIsAppendLog ==
    /\ messages = appended
    /\ last.outcome = "cleared" => messages = <<>>

C2_Witness ==
    /\ Len(messages) >= 4
    /\ messages = appended
    /\ messages[1].content /= messages[3].content
    /\ messages[2] /= messages[4]

\* C3 as stated: query_agent never raises; every call returns status success
\* or status error.
C3_QueryAgentNeverRaises ==
    last.outcome \in {"answered", "error", "raised"} => last.status \in {"success", "error"}

\* C4 as stated: when the agent call fails, the user turn is followed by
\* exactly one assistant turn that starts with "Error:" and has no chart, sql
\* or data field, and the earlier turns are unchanged.
C4_FailureGivesErrorTurn ==
    (last.outcome \in {"error", "raised"} /\ last.status \in {"error", "raised"}) =>
        /\ Len(messages) = Len(last.before) + 2
        /\ SubSeq(messages, 1, Len(last.before)) = last.before
        /\ messages[Len(messages) - 1] = UserTurn(last.query)
        /\ messages[Len(messages)].role = "assistant"
        /\ SubSeq(messages[Len(messages)].content, 1, 6) = "Error:"
        /\ DOMAIN messages[Len(messages)] = {"role", "content"}

\* C5: when building the chart fails, a warning is shown, the SQL (when there
\* is any) and the data rows are still shown, and the assistant turn is
\* appended with the answer, sql and data and without a chart.
C5_ChartFailureConfined ==
    (last.outcome = "answered" /\ last.vizEnv = "build_raises") =>
        /\ last.warned
        /\ ~last.shownChart
        /\ last.shownSql = (Get(last.response, "sql", "") /= "")
        /\ last.shownData
        /\ messages = last.before \o
              <<UserTurn(last.query),
                [role |-> "assistant",
                 content |-> Get(last.response, "answer", "Analysis completed."),
                 sql |-> Get(last.response, "sql", ""),
                 data |-> last.response.data,
                 visualization |-> None]>>

C5_Witness ==
    /\ last.outcome = "answered"
    /\ last.vizEnv = "build_raises"
    /\ last.shownSql
    /\ Len(last.before) >= 2

\* C11 as stated: every handled question adds exactly two turns, the user turn
\* holding the question and then one assistant turn, so between handlings the
\* conversation has even length and its roles alternate user, assistant,
\* starting with user.
C11_TwoTurnsPerQuestion ==
    /\ Len(messages) % 2 = 0
    /\ \A i \in 1..Len(messages) :
          messages[i].role = (IF i % 2 = 1 THEN "user" ELSE "assistant")
    /\ last.outcome \in {"answered", "error", "raised"} =>
          /\ Len(messages) = Len(last.before) + 2
          /\ messages[Len(messages) - 1] = UserTurn(last.query)
          /\ messages[Len(messages)].role = "assistant"

====
